---- MODULE Spec2Model ----
(***************************************************************************)
(* A model of the three command-line transformations of MAPPED-batch:      *)
(*   clean_metadata_file.py      (MetadataCleaner)                         *)
(*   create_batch_samplesheet.py (SamplesheetBuilder)                      *)
(*   merge_batch_results.py      (MatrixMerger)                            *)
(* Each program is a straight-line script; its position is a pc variable   *)
(* and each block of statements is one action.  Text is a sequence of      *)
(* one-character strings; a pandas NaN in a text column is the sentinel    *)
(* NaN, which is no text the alphabet can spell.                           *)
(***************************************************************************)
EXTENDS Integers, Sequences, FiniteSets, TLC

VARIABLES
    \* MatrixMerger (merge_batch_results.py)
    fs, batch_dirs, m_pc, idx, all_tpm, all_log_tpm, all_counts,
    out_files, summary, warnings,
    \* MetadataCleaner (clean_metadata_file.py)
    infile, columns, layout, strain, c_pc, DF_SRR, DF_SRX, outfile, sample_id_csv,
    \* SamplesheetBuilder (create_batch_samplesheet.py)
    sample_ids_file, metadata_df, has_layout, s_pc, batch_sample_ids,
    batch_metadata, row_i, samplesheet_data, output_file, warned

m_vars == <<fs, batch_dirs, m_pc, idx, all_tpm, all_log_tpm, all_counts,
            out_files, summary, warnings>>

c_vars == <<infile, columns, layout, strain, c_pc, DF_SRR, DF_SRX, outfile,
            sample_id_csv>>

s_vars == <<sample_ids_file, metadata_df, has_layout, s_pc, batch_sample_ids,
            batch_metadata, row_i, samplesheet_data, output_file, warned>>

vars == <<m_vars, c_vars, s_vars>>

(***************************************************************************)
(* Bounds of the model.                                                    *)
(***************************************************************************)
NumDirs == 3
NumGenes == 3
MaxRows == 3
MaxMetaRows == 2

(***************************************************************************)
(* General helpers.                                                        *)
(***************************************************************************)
None == [none |-> TRUE]

\* A missing numeric cell (numpy nan); real cell values are naturals.
NaNum == 0 - 1

Range(s) == {s[i] : i \in DOMAIN s}

NoDup(s) == \A i, j \in DOMAIN s : i # j => s[i] # s[j]

\* The sequences of distinct elements of S
RECURSIVE DistinctSeqs(_)
DistinctSeqs(S) ==
    {<<>>} \cup UNION {{<<x>> \o t : t \in DistinctSeqs(S \ {x})} : x \in S}

\* The elements of a set of integers in increasing order
RECURSIVE SortedSeq(_)
SortedSeq(S) ==
    IF S = {} THEN <<>>
    ELSE LET m == CHOOSE x \in S : \A y \in S : x <= y
         IN <<m>> \o SortedSeq(S \ {m})

(***************************************************************************)
(* Text: a sequence of one-character strings.                              *)
(***************************************************************************)
\* A missing value of a text column (read_csv turns an empty field into NaN)
NaN == <<"NaN">>

\* The characters the model spells text with, in code-point order
Ascii ==
    <<" ", "-", ".", "/", "0", "1", "2", "3", "4", "5", "6", "7", "8", "9", ";",
      "A", "B", "C", "D", "E", "F", "G", "H", "I", "J", "K", "L", "M",
      "N", "O", "P", "Q", "R", "S", "T", "U", "V", "W", "X", "Y", "Z", "_",
      "a", "b", "c", "d", "e", "f", "g", "h", "i", "j", "k", "l", "m",
      "n", "o", "p", "q", "r", "s", "t", "u", "v", "w", "x", "y", "z">>

OrdOf == [c \in Range(Ascii) |-> CHOOSE i \in DOMAIN Ascii : Ascii[i] = c]

\* ord(c), as the place of c in Ascii
Ord(c) == OrdOf[c]

FirstUpper == Ord("A")
FirstLower == Ord("a")
Letters == Ord("Z") - Ord("A") + 1

UpperChar(c) ==
    IF Ord(c) >= FirstLower /\ Ord(c) < FirstLower + Letters
    THEN Ascii[Ord(c) - FirstLower + FirstUpper] ELSE c

LowerChar(c) ==
    IF Ord(c) >= FirstUpper /\ Ord(c) < FirstUpper + Letters
    THEN Ascii[Ord(c) - FirstUpper + FirstLower] ELSE c

\* str.upper(), str.lower()
Upper(s) == [i \in DOMAIN s |-> UpperChar(s[i])]
Lower(s) == [i \in DOMAIN s |-> LowerChar(s[i])]

\* Python's < on str
RECURSIVE StrLess(_, _)
StrLess(a, b) ==
    IF b = <<>> THEN FALSE
    ELSE IF a = <<>> THEN TRUE
    ELSE IF Head(a) = Head(b) THEN StrLess(Tail(a), Tail(b))
    ELSE Ord(Head(a)) < Ord(Head(b))

\* sep.join(parts)
RECURSIVE Join(_, _)
Join(parts, sep) ==
    IF parts = <<>> THEN <<>>
    ELSE IF Len(parts) = 1 THEN parts[1]
    ELSE parts[1] \o sep \o Join(Tail(parts), sep)

\* s.split(c) for a one-character separator c: always at least one piece
RECURSIVE SplitFrom(_, _, _)
SplitFrom(s, c, piece) ==
    IF s = <<>> THEN <<piece>>
    ELSE IF Head(s) = c THEN <<piece>> \o SplitFrom(Tail(s), c, <<>>)
    ELSE SplitFrom(Tail(s), c, Append(piece, Head(s)))

Split(s, c) == SplitFrom(s, c, <<>>)

IsSpace(c) == c = " "

\* s.strip()
RECURSIVE LStrip(_)
LStrip(s) == IF s # <<>> /\ IsSpace(Head(s)) THEN LStrip(Tail(s)) ELSE s

RECURSIVE RStrip(_)
RStrip(s) ==
    IF s # <<>> /\ IsSpace(s[Len(s)]) THEN RStrip(SubSeq(s, 1, Len(s) - 1)) ELSE s

Strip(s) == RStrip(LStrip(s))

\* s.split(): the pieces between runs of whitespace, none of them empty
SplitWhitespace(s) == SelectSeq(Split(s, " "), LAMBDA t : t # <<>>)

\* q in t
Contains(t, q) ==
    \E i \in 1 .. (Len(t) - Len(q) + 1) : SubSeq(t, i, i + Len(q) - 1) = q

\* The elements of a set of texts in increasing order
RECURSIVE SortedStrs(_)
SortedStrs(S) ==
    IF S = {} THEN <<>>
    ELSE LET m == CHOOSE x \in S : \A y \in S \ {x} : StrLess(x, y)
         IN <<m>> \o SortedStrs(S \ {m})

(***************************************************************************)
(* MatrixMerger: the file system the script reads.                         *)
(***************************************************************************)
Kinds == {"tpm", "log_tpm", "counts"}

Dirs == 1 .. NumDirs

KindNo(k) == CASE k = "tpm" -> 0 [] k = "log_tpm" -> 1 [] OTHER -> 2

\* The row keys (gene ids, in file order) and the sample columns of the
\* matrices of batch d.  Sample names are distinct per batch.
GenesOf(d) == <<((d - 1) % NumGenes) + 1, (d % NumGenes) + 1>>
SamplesOf(d) == <<10 * d + 1, 10 * d + 2>>

CellOf(d, k, g, s) ==
    LET v == (g + s + d + KindNo(k)) % 4 IN IF v = 3 THEN NaNum ELSE v

\* pd.read_csv(file, index_col=0): the first column is the index
ReadMatrix(d, k) ==
    [index |-> GenesOf(d), columns |-> SamplesOf(d),
     data |-> [c \in Range(GenesOf(d)) \X Range(SamplesOf(d)) |->
                  CellOf(d, k, c[1], c[2])]]

NoDir == [exists |-> FALSE, has_subdir |-> FALSE, top |-> {}, sub |-> {}]

KindChoices == {{}, {"log_tpm", "counts"}, Kinds}

\* What one batch directory may hold: nothing (it does not exist), files
\* directly in it, files in its expression_matrices subdirectory, or a
\* subdirectory beside files left directly in it.
DirContents ==
    {NoDir}
    \cup {[exists |-> TRUE, has_subdir |-> FALSE, top |-> K, sub |-> {}] :
             K \in KindChoices}
    \cup {[exists |-> TRUE, has_subdir |-> TRUE, top |-> {}, sub |-> {"tpm"}],
          [exists |-> TRUE, has_subdir |-> TRUE, top |-> Kinds, sub |-> {"counts"}]}

\* os.path.join(batch_dir, 'expression_matrices') when it exists, else batch_dir
ExprDirFiles(c) == IF c.has_subdir THEN c.sub ELSE c.top

\* os.path.exists(<kind>.csv) in the directory the script looks in
FileExists(d, k) == fs[d].exists /\ k \in ExprDirFiles(fs[d])

(***************************************************************************)
(* MatrixMerger: the dataframe operations.                                 *)
(***************************************************************************)
\* Mutant of OuterMerge: how='left', the keys of the left side alone
OuterMerge_Left(left, right) ==
    LET keys == Range(left.index)
        cols == left.columns \o right.columns
    IN [index |-> SortedSeq(keys),
        columns |-> cols,
        data |-> [c \in keys \X Range(cols) |->
                    IF c[2] \in Range(left.columns) THEN left.data[c]
                    ELSE IF c[1] \in Range(right.index)
                         THEN right.data[c] ELSE NaNum]]

\* pd.merge(left, right, left_index=True, right_index=True, how='outer'):
\* the keys of both sides, sorted; a cell of a key one side lacks is NaN.
OuterMerge(left, right) ==
    LET keys == Range(left.index) \cup Range(right.index)
        cols == left.columns \o right.columns
    IN [index |-> SortedSeq(keys),
        columns |-> cols,
        data |-> [c \in keys \X Range(cols) |->
                    IF c[2] \in Range(left.columns)
                    THEN IF c[1] \in Range(left.index)
                         THEN left.data[c] ELSE NaNum
                    ELSE IF c[1] \in Range(right.index)
                         THEN right.data[c] ELSE NaNum]]

\* if all_x is None: all_x = batch_x  else: all_x = pd.merge(...)
Accumulate(all, batch) ==
    IF all = None THEN batch ELSE OuterMerge(all, batch)

\* One kind's block of the loop body: read the file if it exists
MergeKind(all, d, k) ==
    IF FileExists(d, k) THEN Accumulate(all, ReadMatrix(d, k)) ELSE all

\* Mutant of FillNa: the fill is left out
FillNa_Skipped(m) == m

\* df.fillna(0)
FillNa(m) ==
    IF m = None THEN None
    ELSE [m EXCEPT !.data = [c \in DOMAIN m.data |->
                               IF m.data[c] = NaNum THEN 0 ELSE m.data[c]]]

\* f"Merged ... matrix: {shape[0]} genes x {shape[1]} samples"
SummaryLine(k, m) ==
    [kind |-> k, genes |-> Len(m.index), samples |-> Len(m.columns)]

\* Mutant of SummaryOf: a line for a kind no batch supplied
SummaryOf_Unconditional(k, m) ==
    IF m = None THEN <<[kind |-> k, genes |-> 0, samples |-> 0]>>
    ELSE <<SummaryLine(k, m)>>

SummaryOf(k, m) == IF m = None THEN <<>> ELSE <<SummaryLine(k, m)>>

(***************************************************************************)
(* MatrixMerger: the script.                                               *)
(***************************************************************************)
MergeStart ==
    /\ batch_dirs \in DistinctSeqs(Dirs)
    /\ fs \in [Dirs -> DirContents]
    /\ \A d \in Dirs \ Range(batch_dirs) : fs[d] = NoDir
    /\ m_pc = "loop"
    /\ idx = 1
    /\ all_tpm = None
    /\ all_log_tpm = None
    /\ all_counts = None
    /\ out_files = [k \in Kinds |-> None]
    /\ summary = <<>>
    /\ warnings = <<>>

\* One iteration of "for batch_dir in batch_dirs"
ProcessBatch ==
    /\ m_pc = "loop"
    /\ idx <= Len(batch_dirs)
    /\ LET d == batch_dirs[idx] IN
         IF ~fs[d].exists
         THEN /\ warnings' = Append(warnings, d)
              /\ UNCHANGED <<all_tpm, all_log_tpm, all_counts>>
         ELSE /\ all_tpm' = MergeKind(all_tpm, d, "tpm")
              /\ all_log_tpm' = MergeKind(all_log_tpm, d, "log_tpm")
              /\ all_counts' = MergeKind(all_counts, d, "counts")
              /\ UNCHANGED warnings
    /\ idx' = idx + 1
    /\ UNCHANGED <<fs, batch_dirs, m_pc, out_files, summary>>
    /\ UNCHANGED <<c_vars, s_vars>>

\* "Fill NaN values with 0", after the loop
FillStep ==
    /\ m_pc = "loop"
    /\ idx > Len(batch_dirs)
    /\ all_tpm' = FillNa(all_tpm)
    /\ all_log_tpm' = FillNa(all_log_tpm)
    /\ all_counts' = FillNa(all_counts)
    /\ m_pc' = "save"
    /\ UNCHANGED <<fs, batch_dirs, idx, out_files, summary, warnings>>
    /\ UNCHANGED <<c_vars, s_vars>>

\* "Save merged expression matrices" and "Write summary"
SaveStep ==
    /\ m_pc = "save"
    /\ out_files' = [k \in Kinds |->
                        CASE k = "tpm" -> all_tpm
                          [] k = "log_tpm" -> all_log_tpm
                          [] OTHER -> all_counts]
    /\ summary' = SummaryOf("tpm", all_tpm) \o SummaryOf("log_tpm", all_log_tpm)
                    \o SummaryOf("counts", all_counts)
    /\ m_pc' = "done"
    /\ UNCHANGED <<fs, batch_dirs, idx, all_tpm, all_log_tpm, all_counts, warnings>>
    /\ UNCHANGED <<c_vars, s_vars>>

MergeNext == ProcessBatch \/ FillStep \/ SaveStep

(***************************************************************************)
(* MatrixMerger: the loop as a function of the list of batch directories   *)
(* (lines 20-64 for one kind), used to compare orders of the list.         *)
(***************************************************************************)
RECURSIVE MergeAll(_, _, _)
MergeAll(all, dirs, k) ==
    IF dirs = <<>> THEN all
    ELSE MergeAll(IF fs[Head(dirs)].exists THEN MergeKind(all, Head(dirs), k)
                  ELSE all,
                  Tail(dirs), k)

\* The accumulated matrix of kind k
AllOf(k) ==
    CASE k = "tpm" -> all_tpm [] k = "log_tpm" -> all_log_tpm [] OTHER -> all_counts

\* The batch directories among the first n of the list that supplied a k file
SuppliedUpTo(n, k) ==
    {batch_dirs[i] : i \in {j \in DOMAIN batch_dirs : j <= n /\ FileExists(batch_dirs[j], k)}}

Supplied(k) == SuppliedUpTo(Len(batch_dirs), k)

GenesUnion(D) == UNION {Range(GenesOf(d)) : d \in D}

\* A matrix as a mapping from (gene, sample) to value
AsMap(m) == IF m = None THEN None ELSE [map |-> m.data]

(***************************************************************************)
(* C1: after the merge the row keys of each written matrix are exactly    *)
(* the union of the row keys of the input matrices of that kind, and each  *)
(* cell (g, s) whose gene g is no row of the batch that contributed sample *)
(* s is 0; no cell is left null.                                           *)
(***************************************************************************)
C1_KindOk(k) ==
    LET m == out_files[k] IN
    m # None =>
        /\ Range(m.index) = GenesUnion(Supplied(k))
        /\ NoDup(m.index)
        /\ DOMAIN m.data = Range(m.index) \X Range(m.columns)
        /\ \A c \in DOMAIN m.data : m.data[c] # NaNum
        /\ \A d \in Supplied(k) : \A s \in Range(SamplesOf(d)) :
              /\ s \in Range(m.columns)
              /\ \A g \in Range(m.index) \ Range(GenesOf(d)) : m.data[<<g, s>>] = 0

C1_UnionZeroFill == m_pc = "done" => \A k \in Kinds : C1_KindOk(k)

\* The spec's example: genes {g1,g2} and {g2,g3}, rows {g1,g2,g3}, zero cells
C1_Witness ==
    /\ m_pc = "done"
    /\ batch_dirs = <<1, 2>>
    /\ Supplied("tpm") = {1, 2}
    /\ out_files["tpm"] # None
    /\ Range(out_files["tpm"].index) = {1, 2, 3}
    /\ out_files["tpm"].data[<<1, SamplesOf(2)[1]>>] = 0
    /\ out_files["tpm"].data[<<3, SamplesOf(1)[1]>>] = 0

(***************************************************************************)
(* C6: '<prefix>_K.csv' and the summary line of K are written iff some     *)
(* existing batch directory supplied a K file; a missing batch directory   *)
(* is warned about and skipped, and the merge is that of the remaining     *)
(* batches; an empty list writes no matrix and an empty summary.           *)
(***************************************************************************)
ExistingDirs == SelectSeq(batch_dirs, LAMBDA d : fs[d].exists)
MissingDirs == SelectSeq(batch_dirs, LAMBDA d : ~fs[d].exists)

C6_WrittenIffSupplied ==
    m_pc = "done" =>
        /\ \A k \in Kinds :
              /\ (out_files[k] # None) <=> (Supplied(k) # {})
              /\ (\E i \in DOMAIN summary : summary[i].kind = k) <=> (Supplied(k) # {})
              /\ out_files[k] = FillNa(MergeAll(None, ExistingDirs, k))
        /\ warnings = MissingDirs
        /\ (batch_dirs = <<>> => summary = <<>> /\ \A k \in Kinds : out_files[k] = None)

C6_Witness ==
    /\ m_pc = "done"
    /\ Len(batch_dirs) = 3
    /\ ~fs[batch_dirs[2]].exists
    /\ fs[batch_dirs[3]].exists
    /\ Supplied("tpm") = {batch_dirs[1], batch_dirs[3]}
    /\ Supplied("counts") = {}
    /\ out_files["tpm"] # None
    /\ out_files["counts"] = None
    /\ Len(summary) = 1

(***************************************************************************)
(* C10: the accumulation does not depend on the order of the batch list:   *)
(* the zero-filled matrix of each kind, as a mapping from (gene, sample)   *)
(* to value, is the same for every permutation of the list, and after each *)
(* processed batch the row keys are the union of those seen so far.        *)
(***************************************************************************)
\* The batch list in increasing order of directory: one list for all the
\* orderings of the same directories, each of which is an initial state
Canonical(dirs) == SortedSeq(Range(dirs))

C10_OrderIndependent ==
    /\ m_pc = "loop" =>
         \A k \in Kinds :
            IF SuppliedUpTo(idx - 1, k) = {} THEN AllOf(k) = None
            ELSE /\ AllOf(k) # None
                 /\ Range(AllOf(k).index) = GenesUnion(SuppliedUpTo(idx - 1, k))
    /\ m_pc \in {"save", "done"} =>
         \A k \in Kinds :
            AsMap(AllOf(k)) = AsMap(FillNa(MergeAll(None, Canonical(batch_dirs), k)))

C10_Witness ==
    /\ m_pc = "done"
    /\ Len(batch_dirs) = 3
    /\ batch_dirs[1] > batch_dirs[2]
    /\ Cardinality(Supplied("log_tpm")) = 3
    /\ Range(all_log_tpm.index) = {1, 2, 3}

(***************************************************************************)
(* MetadataCleaner: values and dataframe operations.                       *)
(***************************************************************************)
\* The header token of the run-accession column
RunToken == <<"R", "u", "n">>

PAIRED == <<"P", "A", "I", "R", "E", "D">>
SINGLE == <<"S", "I", "N", "G", "L", "E">>

\* --layout choices
LayoutChoices == {Lower(PAIRED), Lower(SINGLE), <<"b", "o", "t", "h">>}

\* --strain default (None)
NoStrain == <<"None">>

\* pandas NaT
NaT == <<>>

\* DF_SRR[~DF_SRR.Run.isin(["", "Run"])]
DropRows(df) == SelectSeq(df, LAMBDA r : r.Run \notin {<<>>, RunToken})

\* groupby("Experiment"): the keys, sorted; rows with a null key are left out
GroupKeys(df) == SortedStrs({df[i].Experiment : i \in DOMAIN df} \ {NaN})

GroupRows(df, e) == SelectSeq(df, LAMBDA r : r.Experiment = e)

\* Mutant of Last: the value of the last row, null or not
Last_OfLastRow(vals) == IF vals = <<>> THEN NaN ELSE vals[Len(vals)]

\* "last": the last non-null value of the column within the group
RECURSIVE Last(_)
Last(vals) ==
    IF vals = <<>> THEN NaN
    ELSE IF vals[Len(vals)] # NaN THEN vals[Len(vals)]
    ELSE Last(SubSeq(vals, 1, Len(vals) - 1))

Column(rows, c) == [i \in DOMAIN rows |-> rows[i][c]]

\* ";".join raises TypeError on a NaN (a float) among the values of a group
JoinRaises(df) == \E i \in DOMAIN df : df[i].Experiment # NaN /\ df[i].Run = NaN

\* Mutant of AggGroup: "last" for the Run column too
AggGroup_RunLast(df, e) ==
    LET rows == GroupRows(df, e) IN
    [Experiment |-> Last(Column(rows, "Experiment")),
     Run |-> Last(Column(rows, "Run")),
     ReleaseDate |-> Last(Column(rows, "ReleaseDate")),
     LibraryLayout |-> Last(Column(rows, "LibraryLayout")),
     ScientificName |-> Last(Column(rows, "ScientificName")),
     R1 |-> NaN, R2 |-> NaN]

\* One row of groupby("Experiment").agg(agg_rules), then R1 = R2 = None
AggGroup(df, e) ==
    LET rows == GroupRows(df, e) IN
    [Experiment |-> Last(Column(rows, "Experiment")),
     Run |-> Join(Column(rows, "Run"), <<";">>),
     ReleaseDate |-> Last(Column(rows, "ReleaseDate")),
     LibraryLayout |-> Last(Column(rows, "LibraryLayout")),
     ScientificName |-> Last(Column(rows, "ScientificName")),
     R1 |-> NaN, R2 |-> NaN]

GroupAgg(df) == LET keys == GroupKeys(df) IN [i \in DOMAIN keys |-> AggGroup(df, keys[i])]

IsDigit(c) == Ord(c) >= Ord("0") /\ Ord(c) <= Ord("9")

RECURSIVE Number(_)
Number(s) ==
    IF s = <<>> THEN 0
    ELSE 10 * Number(SubSeq(s, 1, Len(s) - 1)) + (Ord(s[Len(s)]) - Ord("0"))

IsLeap(y) == (y % 4 = 0 /\ y % 100 # 0) \/ y % 400 = 0

DaysIn(y, m) ==
    IF m = 2 THEN (IF IsLeap(y) THEN 29 ELSE 28)
    ELSE IF m \in {4, 6, 9, 11} THEN 30 ELSE 31

\* pd.to_datetime(v, format='%Y-%m-%d', errors='coerce'): <<year, month, day>>,
\* or NaT for a null and for text that is no date in that format
ToDatetime(v) ==
    IF v = NaN THEN NaT
    ELSE LET parts == Split(v, "-") IN
         IF Len(parts) # 3 THEN NaT
         ELSE IF \E i \in 1 .. 3 : parts[i] = <<>> \/ \E j \in DOMAIN parts[i] : ~IsDigit(parts[i][j])
         THEN NaT
         ELSE IF Len(parts[1]) # 4 \/ Len(parts[2]) # 2 \/ Len(parts[3]) # 2 THEN NaT
         ELSE LET y == Number(parts[1])
                  m == Number(parts[2])
                  d == Number(parts[3])
              IN IF m >= 1 /\ m <= 12 /\ d >= 1 /\ d <= DaysIn(y, m)
                 THEN <<y, m, d>> ELSE NaT

ParseDates(df) == [i \in DOMAIN df |-> [df[i] EXCEPT !.ReleaseDate = ToDatetime(@)]]

\* Timestamp a is later than Timestamp b
Later(a, b) ==
    \/ a[1] > b[1]
    \/ a[1] = b[1] /\ a[2] > b[2]
    \/ a[1] = b[1] /\ a[2] = b[2] /\ a[3] > b[3]

\* Mutant of SortsBefore: ascending order
SortsBefore_Ascending(r, q) ==
    /\ r.ReleaseDate # NaT
    /\ q.ReleaseDate = NaT \/ Later(q.ReleaseDate, r.ReleaseDate)

\* Row r must come before row q under sort_values(ascending=False), whose
\* na_position is 'last'
SortsBefore(r, q) ==
    /\ r.ReleaseDate # NaT
    /\ q.ReleaseDate = NaT \/ Later(r.ReleaseDate, q.ReleaseDate)

\* The place of row r in df
Place(df, r) == CHOOSE k \in DOMAIN df : df[k] = r

\* df.sort_values('ReleaseDate', ascending=False).  The sort is quicksort, which
\* is not stable: rows with equal dates come out in any order.  The rows
\* without a date are appended in the order they had.
SortValues(df) ==
    {p \in DistinctSeqs(Range(df)) :
        /\ Len(p) = Len(df)
        /\ \A i, j \in DOMAIN p :
              i < j =>
                 /\ ~SortsBefore(p[j], p[i])
                 /\ (p[i].ReleaseDate = NaT /\ p[j].ReleaseDate = NaT) =>
                        Place(df, p[i]) < Place(df, p[j])}

\* Series.str.upper(): a null stays null
StrUpper(v) == IF v = NaN THEN NaN ELSE Upper(v)

\* Mutant of LayoutMask: the value is compared as written, not uppercased
LayoutMask_CaseSensitive(v, lay) ==
    IF Lower(lay) = Lower(PAIRED) THEN v = PAIRED
    ELSE IF Lower(lay) = Lower(SINGLE) THEN v = SINGLE
    ELSE v \in {PAIRED, SINGLE}

\* The boolean mask of the layout filter for one row
LayoutMask(v, lay) ==
    IF Lower(lay) = Lower(PAIRED) THEN StrUpper(v) = PAIRED
    ELSE IF Lower(lay) = Lower(SINGLE) THEN StrUpper(v) = SINGLE
    ELSE StrUpper(v) \in {PAIRED, SINGLE}

LayoutFilter(df, lay) == SelectSeq(df, LAMBDA r : LayoutMask(r.LibraryLayout, lay))

\* A column read_csv found empty in every row is float64, and .str raises on it
LayoutIsFloat(raw) ==
    raw # <<>> /\ \A i \in DOMAIN raw : raw[i].LibraryLayout = NaN

\* match_tokens(name)
MatchTokens(name, qlower) ==
    \E t \in Range(SplitWhitespace(name)) :
        Lower(t) = qlower \/ Contains(Lower(t), qlower)

\* The strain block: a no-op unless a non-blank strain is given and the
\* ScientificName column exists
StrainFilter(df, cols, str) ==
    IF str = NoStrain \/ str = <<>> THEN df
    ELSE IF "ScientificName" \notin cols THEN df
    ELSE IF Strip(str) = <<>> THEN df
    ELSE SelectSeq(df, LAMBDA r :
            MatchTokens(IF r.ScientificName = NaN THEN <<>> ELSE r.ScientificName,
                        Lower(Strip(str))))

(***************************************************************************)
(* MetadataCleaner: the inputs the model draws.                            *)
(***************************************************************************)
OptionalColumns == {"ReleaseDate", "LibraryLayout", "ScientificName"}

S1 == <<"S", "1">>
S2 == <<"S", "2">>

\* Experiment accessions X1, X2, ...
ExpName(i) == <<"X", Ascii[Ord("0") + i]>>

D2020 == <<"2", "0", "2", "0", "-", "0", "1", "-", "0", "5">>
D2021 == <<"2", "0", "2", "1", "-", "0", "3", "-", "0", "1">>
DBad == <<"2", "0", "2", "0", "-", "1", "3", "-", "0", "1">>

Mus == <<"M", "u", "s", " ", "m", "u", "s", "c">>
Homo == <<"H", "o", "m", "o", " ", "s", "a", "p">>

InRow(run, exp, date, lay, name) ==
    [Run |-> run, Experiment |-> exp, ReleaseDate |-> date, LibraryLayout |-> lay,
     ScientificName |-> name]

\* The sequences over S of length at most n
RECURSIVE SeqsUpTo(_, _)
SeqsUpTo(S, n) ==
    IF n = 0 THEN {<<>>}
    ELSE LET shorter == SeqsUpTo(S, n - 1)
         IN shorter \cup {Append(s, x) : s \in {t \in shorter : Len(t) = n - 1}, x \in S}

\* Tables that vary the run and experiment accessions, header rows and
\* empty fields included; no optional column
RunRows ==
    {InRow(run, exp, NaN, NaN, NaN) :
        run \in {NaN, RunToken, S1, S2}, exp \in {ExpName(1), ExpName(2)}}
    \cup {InRow(S1, NaN, NaN, NaN, NaN)}

\* Tables that vary the layout column within and across experiments
LayoutRows ==
    {InRow(S1, exp, NaN, lay, NaN) :
        exp \in {ExpName(1), ExpName(2)},
        lay \in {NaN, PAIRED, Lower(SINGLE), <<"O", "t", "h", "e", "r">>}}

\* Tables of one run per experiment that vary the release date, the layout
\* and the scientific name
DatedProfiles == {<<PAIRED, Mus>>, <<Lower(SINGLE), Homo>>}

DatedTables ==
    {[i \in DOMAIN s |->
         InRow(S1, ExpName(Len(s) + 1 - i), s[i][1], s[i][2][1], s[i][2][2])] :
       s \in SeqsUpTo({NaN, D2020, D2021, DBad} \X DatedProfiles, MaxRows)}

(***************************************************************************)
(* MetadataCleaner: the script.                                            *)
(***************************************************************************)
CleanInputs ==
    \/ /\ infile \in SeqsUpTo(RunRows, MaxRows)
       /\ columns = {}
       /\ layout = <<"b", "o", "t", "h">>
       /\ strain = NoStrain
    \/ /\ infile \in SeqsUpTo(LayoutRows, MaxRows)
       /\ columns = {"LibraryLayout"}
       /\ layout \in LayoutChoices
       /\ strain = NoStrain
    \/ /\ infile \in DatedTables
       /\ columns = OptionalColumns
       /\ layout \in {Lower(PAIRED), <<"b", "o", "t", "h">>}
       /\ strain \in {NoStrain, <<" ", "M", "U", "S", "C">>}

CleanStart ==
    /\ CleanInputs
    /\ c_pc = "read"
    /\ DF_SRR = <<>>
    /\ DF_SRX = <<>>
    /\ outfile = <<>>
    /\ sample_id_csv = <<>>

\* read_csv and the drop of header rows (lines 9-12)
ReadStep ==
    /\ c_pc = "read"
    /\ DF_SRR' = DropRows(infile)
    /\ c_pc' = "group"
    /\ UNCHANGED <<infile, columns, layout, strain, DF_SRX, outfile, sample_id_csv>>
    /\ UNCHANGED <<m_vars, s_vars>>

\* groupby/agg, set_index, R1 and R2 (lines 15-22)
GroupStep ==
    /\ c_pc = "group"
    /\ IF JoinRaises(DF_SRR)
       THEN c_pc' = "crashed" /\ UNCHANGED DF_SRX
       ELSE c_pc' = "sort" /\ DF_SRX' = GroupAgg(DF_SRR)
    /\ UNCHANGED <<infile, columns, layout, strain, DF_SRR, outfile, sample_id_csv>>
    /\ UNCHANGED <<m_vars, s_vars>>

\* "Sort rows by ReleaseDate descending" (lines 25-27)
SortStep ==
    /\ c_pc = "sort"
    /\ IF "ReleaseDate" \in columns
       THEN DF_SRX' \in SortValues(ParseDates(DF_SRX))
       ELSE UNCHANGED DF_SRX
    /\ c_pc' = "layout"
    /\ UNCHANGED <<infile, columns, layout, strain, DF_SRR, outfile, sample_id_csv>>
    /\ UNCHANGED <<m_vars, s_vars>>

\* "Filter by LibraryLayout parameter" (lines 30-37)
LayoutStep ==
    /\ c_pc = "layout"
    /\ IF "LibraryLayout" \notin columns
       THEN c_pc' = "strain" /\ UNCHANGED DF_SRX
       ELSE IF LayoutIsFloat(infile)
       THEN c_pc' = "crashed" /\ UNCHANGED DF_SRX
       ELSE c_pc' = "strain" /\ DF_SRX' = LayoutFilter(DF_SRX, layout)
    /\ UNCHANGED <<infile, columns, layout, strain, DF_SRR, outfile, sample_id_csv>>
    /\ UNCHANGED <<m_vars, s_vars>>

\* "Filter by strain using ScientificName column" (lines 42-57)
StrainStep ==
    /\ c_pc = "strain"
    /\ DF_SRX' = StrainFilter(DF_SRX, columns, strain)
    /\ c_pc' = "save"
    /\ UNCHANGED <<infile, columns, layout, strain, DF_SRR, outfile, sample_id_csv>>
    /\ UNCHANGED <<m_vars, s_vars>>

\* to_csv of the table and of its index (lines 60-63)
WriteStep ==
    /\ c_pc = "save"
    /\ outfile' = DF_SRX
    /\ sample_id_csv' = [i \in DOMAIN DF_SRX |-> DF_SRX[i].Experiment]
    /\ c_pc' = "done"
    /\ UNCHANGED <<infile, columns, layout, strain, DF_SRR, DF_SRX>>
    /\ UNCHANGED <<m_vars, s_vars>>

CleanNext == ReadStep \/ GroupStep \/ SortStep \/ LayoutStep \/ StrainStep \/ WriteStep

(***************************************************************************)
(* MetadataCleaner: what the claims speak of.                              *)
(***************************************************************************)
\* The rows of the input table that belong to experiment e, in input order
InputRowsOf(e) == SelectSeq(infile, LAMBDA r : r.Experiment = e)

InputExperiments == {infile[i].Experiment : i \in DOMAIN infile} \ {NaN}

\* Every row of the input is a run record: its run accession is present, is
\* not the header token and holds no ';'
ValidRuns ==
    \A i \in DOMAIN infile :
        /\ infile[i].Run \notin {NaN, RunToken, <<>>}
        /\ ";" \notin Range(infile[i].Run)

(***************************************************************************)
(* C2: for a valid per-run table the output has at most one row per        *)
(* experiment accession (no more rows than distinct input experiments,     *)
(* accessions unique), and the Run field of each output row, split on ';', *)
(* is the run accessions of the input rows of that experiment in input     *)
(* order.                                                                  *)
(***************************************************************************)
C2_OneRowPerExperiment ==
    (c_pc = "done" /\ ValidRuns) =>
        /\ Len(outfile) <= Cardinality(InputExperiments)
        /\ NoDup(sample_id_csv)
        /\ \A i \in DOMAIN outfile :
              /\ outfile[i].Experiment \in InputExperiments
              /\ Split(outfile[i].Run, ";") =
                    Column(InputRowsOf(outfile[i].Experiment), "Run")

C2_Witness ==
    /\ c_pc = "done"
    /\ ValidRuns
    /\ Len(infile) = 3
    /\ infile[1].Experiment = infile[3].Experiment
    /\ infile[1].Experiment # infile[2].Experiment
    /\ infile[1].Run = S2
    /\ infile[3].Run = S1
    /\ Len(outfile) = 2
    /\ \E i \in DOMAIN outfile : outfile[i].Run = S2 \o <<";">> \o S1

(***************************************************************************)
(* C5: with a layout column the filter keeps exactly the experiment rows   *)
(* whose uppercased layout is PAIRED (paired), SINGLE (single) or one of   *)
(* the two (both), and filtering the filtered table again by the same      *)
(* layout gives the same table.                                            *)
(***************************************************************************)
LayoutWanted(v, lay) ==
    /\ v # NaN
    /\ \/ lay = Lower(PAIRED) /\ Upper(v) = PAIRED
       \/ lay = Lower(SINGLE) /\ Upper(v) = SINGLE
       \/ lay = <<"b", "o", "t", "h">> /\ (Upper(v) = PAIRED \/ Upper(v) = SINGLE)

\* The experiments of the grouped table and the layout each carries
GroupedLayout(e) == AggGroup(DF_SRR, e).LibraryLayout

C5_LayoutFilterExact ==
    (c_pc = "strain" /\ "LibraryLayout" \in columns) =>
        /\ {DF_SRX[i].Experiment : i \in DOMAIN DF_SRX} =
              {e \in Range(GroupKeys(DF_SRR)) : LayoutWanted(GroupedLayout(e), layout)}
        /\ \A i \in DOMAIN DF_SRX : LayoutWanted(DF_SRX[i].LibraryLayout, layout)
        /\ LayoutFilter(DF_SRX, layout) = DF_SRX

C5_Witness ==
    /\ c_pc = "strain"
    /\ "LibraryLayout" \in columns
    /\ layout = Lower(SINGLE)
    /\ Len(DF_SRR) = 3
    /\ Len(DF_SRX) = 1
    /\ DF_SRX[1].LibraryLayout = Lower(SINGLE)
    /\ \E i \in DOMAIN DF_SRR : DF_SRR[i].LibraryLayout = PAIRED

(***************************************************************************)
(* C7: with a release-date column the written table is in descending date  *)
(* order, rows whose date is null or no date after all dated rows; the     *)
(* order holds from the sort through the layout and strain filters; and    *)
(* sample_id.csv lists the index of the written table in the same order.   *)
(***************************************************************************)
DescendingNullsLast(df) ==
    \A i, j \in DOMAIN df :
        i < j =>
            /\ df[i].ReleaseDate = NaT => df[j].ReleaseDate = NaT
            /\ (df[i].ReleaseDate # NaT /\ df[j].ReleaseDate # NaT) =>
                  ~Later(df[j].ReleaseDate, df[i].ReleaseDate)

\* The date the input gives experiment e is parsed to the expected value
DateParsed(r) ==
    LET given == InputRowsOf(r.Experiment)[1].ReleaseDate IN
        /\ given = D2020 => r.ReleaseDate = <<2020, 1, 5>>
        /\ given = D2021 => r.ReleaseDate = <<2021, 3, 1>>
        /\ given \in {DBad, NaN} => r.ReleaseDate = NaT

C7_DescendingDates ==
    "ReleaseDate" \in columns =>
        /\ c_pc \in {"layout", "strain", "save", "done"} =>
              /\ DescendingNullsLast(DF_SRX)
              /\ \A i \in DOMAIN DF_SRX : DateParsed(DF_SRX[i])
        /\ c_pc = "done" =>
              /\ outfile = DF_SRX
              /\ DescendingNullsLast(outfile)
              /\ sample_id_csv = Column(outfile, "Experiment")

C7_Witness ==
    /\ c_pc = "done"
    /\ "ReleaseDate" \in columns
    /\ Len(infile) = 3
    /\ Len(outfile) = 3
    /\ outfile[1].ReleaseDate = <<2021, 3, 1>>
    /\ outfile[2].ReleaseDate = <<2020, 1, 5>>
    /\ outfile[3].ReleaseDate = NaT
    /\ sample_id_csv = <<ExpName(1), ExpName(3), ExpName(2)>>

(***************************************************************************)
(* C8: every input row whose run accession is empty, and every row whose   *)
(* run accession is the header token "Run", is dropped before grouping, so *)
(* no output Run list holds an empty entry or "Run", and an experiment     *)
(* whose rows are all dropped is not in the output.                        *)
(***************************************************************************)
C8_EmptyAndHeaderRunsDropped ==
    /\ c_pc \in {"group", "sort", "layout", "strain", "save", "done", "crashed"} =>
          /\ \A i \in DOMAIN DF_SRR : DF_SRR[i].Run \notin {NaN, <<>>, RunToken}
          /\ \A i \in DOMAIN infile :
                infile[i].Run \notin {NaN, <<>>, RunToken} =>
                    \E j \in DOMAIN DF_SRR : DF_SRR[j] = infile[i]
    /\ c_pc = "done" =>
          \A i \in DOMAIN outfile :
              /\ \A piece \in Range(Split(outfile[i].Run, ";")) :
                    piece \notin {<<>>, RunToken}
              /\ \E j \in DOMAIN infile :
                    /\ infile[j].Experiment = outfile[i].Experiment
                    /\ infile[j].Run \notin {NaN, <<>>, RunToken}

(***************************************************************************)
(* C9: for every experiment group and every column other than the run      *)
(* accession, the output value is the value in the last input row of the   *)
(* group, also when that value is null.                                    *)
(***************************************************************************)
OtherColumns == {"Experiment", "ReleaseDate", "LibraryLayout", "ScientificName"}

KeptRowsOf(e) == SelectSeq(DF_SRR, LAMBDA r : r.Experiment = e)

C9_LastRowValue ==
    c_pc = "sort" =>
        \A i \in DOMAIN DF_SRX : \A c \in OtherColumns :
            LET rows == KeptRowsOf(DF_SRX[i].Experiment)
            IN DF_SRX[i][c] = rows[Len(rows)][c]

\* C9 as amended: the output value is the last non-null value of the column
\* among the rows of the group, and null only when every row's value is null
C9_LastNonNullValue ==
    c_pc = "sort" =>
        \A i \in DOMAIN DF_SRX : \A c \in OtherColumns :
            LET rows == KeptRowsOf(DF_SRX[i].Experiment)
                filled == {k \in DOMAIN rows : rows[k][c] # NaN}
            IN /\ rows # <<>>
               /\ IF filled = {} THEN DF_SRX[i][c] = NaN
                  ELSE DF_SRX[i][c] = rows[CHOOSE k \in filled : \A n \in filled : n <= k][c]

C9_Witness ==
    /\ c_pc = "sort"
    /\ Len(DF_SRR) = 3
    /\ DF_SRR[1].Experiment = DF_SRR[3].Experiment
    /\ DF_SRR[1].LibraryLayout = PAIRED
    /\ DF_SRR[3].LibraryLayout = NaN
    /\ \E i \in DOMAIN DF_SRX :
          /\ DF_SRX[i].Experiment = DF_SRR[1].Experiment
          /\ DF_SRX[i].LibraryLayout = PAIRED

(***************************************************************************)
(* SamplesheetBuilder: operations.                                         *)
(***************************************************************************)
\* set(row[0] for row in reader if row): the header line is already skipped
BatchIds(file) == {file[i][1] : i \in {j \in DOMAIN file : file[j] # <<>>}}

\* Mutant of FilterBatch: the metadata is not restricted to the batch
FilterBatch_All(df, ids) == df

\* metadata_df[metadata_df.index.isin(batch_sample_ids)]
FilterBatch(df, ids) == SelectSeq(df, LAMBDA r : r.index \in ids)

\* row['Run'].split(';') if pd.notna(row['Run']) else [], each piece stripped,
\* blank pieces skipped
RunIds(row) ==
    LET pieces == IF row.Run = NaN THEN <<>> ELSE Split(row.Run, ";")
    IN SelectSeq([i \in DOMAIN pieces |-> Strip(pieces[i])], LAMBDA x : x # <<>>)

\* row.get('LibraryLayout', 'SINGLE'): the default when the column is absent
LayoutField(row, hasLayout) == IF hasLayout THEN row.LibraryLayout ELSE SINGLE

\* .upper() of a NaN (a float) raises AttributeError, once a run id is reached
UpperRaises(row, hasLayout) ==
    RunIds(row) # <<>> /\ LayoutField(row, hasLayout) = NaN

SeqFiles == <<"s", "e", "q", "F", "i", "l", "e", "s", "/">>
FastqGz == <<".", "f", "a", "s", "t", "q", ".", "g", "z">>

\* The file paths of one run
Fastq1(run_id, lay) ==
    IF lay = PAIRED THEN SeqFiles \o run_id \o <<"_", "1">> \o FastqGz
    ELSE SeqFiles \o run_id \o FastqGz

\* Mutant of Fastq2: a second path for every layout
Fastq2_Always(run_id, lay) == SeqFiles \o run_id \o <<"_", "2">> \o FastqGz

Fastq2(run_id, lay) ==
    IF lay = PAIRED THEN SeqFiles \o run_id \o <<"_", "2">> \o FastqGz
    ELSE <<>>

\* The dictionary appended for one run
Entry(sample_id, run_id, lay) ==
    [id |-> sample_id \o <<"_">> \o run_id,
     run_accession |-> run_id,
     experiment_accession |-> sample_id,
     fastq_1 |-> Fastq1(run_id, lay),
     fastq_2 |-> Fastq2(run_id, lay),
     layout |-> Lower(lay)]

\* The entries of one metadata row (the body of the outer loop)
RowEntries(row, hasLayout) ==
    LET runs == RunIds(row) IN
    [i \in DOMAIN runs |-> Entry(row.index, runs[i], Upper(LayoutField(row, hasLayout)))]

(***************************************************************************)
(* SamplesheetBuilder: the inputs the model draws.                         *)
(***************************************************************************)
RunFields ==
    {NaN, S1 \o <<";">> \o S2, <<" ">> \o S2 \o <<";", " ", ";">> \o S1}

MetaRow(i, run, lay) == [index |-> i, Run |-> run, LibraryLayout |-> lay]

MetaRowsWithLayout ==
    {MetaRow(i, run, lay) :
        i \in {ExpName(1), ExpName(2)}, run \in RunFields,
        lay \in {NaN, PAIRED, Lower(PAIRED), SINGLE}}

MetaRowsNoLayout ==
    {MetaRow(i, run, NaN) : i \in {ExpName(1), ExpName(2)}, run \in RunFields}

\* The lines of the sample-id file after its header; <<>> is a blank line
IdFiles ==
    {<<>>,
     <<<<ExpName(1)>>>>,
     <<<<ExpName(1)>>, <<>>, <<ExpName(1)>>>>,
     <<<<ExpName(2)>>, <<ExpName(3)>>>>,
     <<<<ExpName(1)>>, <<ExpName(2)>>>>}

(***************************************************************************)
(* SamplesheetBuilder: the script.                                         *)
(***************************************************************************)
SheetStart ==
    /\ sample_ids_file \in IdFiles
    /\ \/ has_layout = TRUE /\ metadata_df \in SeqsUpTo(MetaRowsWithLayout, MaxMetaRows)
       \/ has_layout = FALSE /\ metadata_df \in SeqsUpTo(MetaRowsNoLayout, MaxMetaRows)
    /\ s_pc = "ids"
    /\ batch_sample_ids = {}
    /\ batch_metadata = <<>>
    /\ row_i = 1
    /\ samplesheet_data = <<>>
    /\ output_file = <<>>
    /\ warned = FALSE

\* "Read the batch sample IDs" (lines 8-11)
ReadIds ==
    /\ s_pc = "ids"
    /\ batch_sample_ids' = BatchIds(sample_ids_file)
    /\ s_pc' = "meta"
    /\ UNCHANGED <<sample_ids_file, metadata_df, has_layout, batch_metadata, row_i,
                   samplesheet_data, output_file, warned>>
    /\ UNCHANGED <<m_vars, c_vars>>

\* "Read the full metadata" and filter it to the batch (lines 16-24)
ReadMetadata ==
    /\ s_pc = "meta"
    /\ batch_metadata' = FilterBatch(metadata_df, batch_sample_ids)
    /\ s_pc' = "rows"
    /\ UNCHANGED <<sample_ids_file, metadata_df, has_layout, batch_sample_ids, row_i,
                   samplesheet_data, output_file, warned>>
    /\ UNCHANGED <<m_vars, c_vars>>

\* One iteration of "for sample_id, row in batch_metadata.iterrows()"
ExpandRow ==
    /\ s_pc = "rows"
    /\ row_i <= Len(batch_metadata)
    /\ IF UpperRaises(batch_metadata[row_i], has_layout)
       THEN s_pc' = "crashed" /\ UNCHANGED <<row_i, samplesheet_data>>
       ELSE /\ samplesheet_data' =
                  samplesheet_data \o RowEntries(batch_metadata[row_i], has_layout)
            /\ row_i' = row_i + 1
            /\ UNCHANGED s_pc
    /\ UNCHANGED <<sample_ids_file, metadata_df, has_layout, batch_sample_ids,
                   batch_metadata, output_file, warned>>
    /\ UNCHANGED <<m_vars, c_vars>>

\* "Write samplesheet" (lines 58-68): the rows, or the header alone and a warning
WriteSheet ==
    /\ s_pc = "rows"
    /\ row_i > Len(batch_metadata)
    /\ output_file' = samplesheet_data
    /\ warned' = (samplesheet_data = <<>>)
    /\ s_pc' = "done"
    /\ UNCHANGED <<sample_ids_file, metadata_df, has_layout, batch_sample_ids,
                   batch_metadata, row_i, samplesheet_data>>
    /\ UNCHANGED <<m_vars, c_vars>>

SheetNext == ReadIds \/ ReadMetadata \/ ExpandRow \/ WriteSheet

(***************************************************************************)
(* SamplesheetBuilder: what the claims speak of.                           *)
(***************************************************************************)
\* The ids of the sample-id file: the first field of each non-blank line
ListedIds == {sample_ids_file[i][1] : i \in {j \in DOMAIN sample_ids_file : sample_ids_file[j] # <<>>}}

\* The non-blank run ids of a Run field, in order
NonBlankRuns(run) ==
    IF run = NaN THEN <<>>
    ELSE LET pieces == Split(run, ";")
             kept == SelectSeq(pieces, LAMBDA x : \E k \in DOMAIN x : x[k] # " ")
         IN [i \in DOMAIN kept |-> Strip(kept[i])]

\* The <<experiment, run>> pairs the samplesheet is to hold, in order
RECURSIVE ExpectedPairs(_)
ExpectedPairs(df) ==
    IF df = <<>> THEN <<>>
    ELSE LET r == Head(df)
             runs == NonBlankRuns(r.Run)
         IN (IF r.index \in ListedIds THEN [i \in DOMAIN runs |-> <<r.index, runs[i]>>]
             ELSE <<>>) \o ExpectedPairs(Tail(df))

(***************************************************************************)
(* C3: the samplesheet holds exactly one row for each non-blank run id of  *)
(* the Run field, split on ';', of each metadata row whose index is in the *)
(* batch id set, and no other row; each row has id '<experiment>_<run>',   *)
(* run_accession the run and experiment_accession the experiment.          *)
(***************************************************************************)
C3_OneRowPerRun ==
    s_pc = "done" =>
        /\ [i \in DOMAIN output_file |->
               <<output_file[i].experiment_accession, output_file[i].run_accession>>]
              = ExpectedPairs(metadata_df)
        /\ \A i \in DOMAIN output_file :
              /\ output_file[i].id =
                    output_file[i].experiment_accession \o <<"_">>
                        \o output_file[i].run_accession
              /\ output_file[i].experiment_accession \in ListedIds
        /\ warned <=> output_file = <<>>

\* The spec's example: SRX1 with Run 'SRR1;SRR2' in batch {SRX1}
C3_Witness ==
    /\ s_pc = "done"
    /\ metadata_df = <<MetaRow(ExpName(1), S1 \o <<";">> \o S2, PAIRED),
                       MetaRow(ExpName(2), S1 \o <<";">> \o S2, PAIRED)>>
    /\ ListedIds = {ExpName(1)}
    /\ Len(output_file) = 2
    /\ output_file[1].id = <<"X", "1", "_", "S", "1">>
    /\ output_file[2].id = <<"X", "1", "_", "S", "2">>

(***************************************************************************)
(* C4: in every samplesheet row, if the experiment's layout (uppercased;   *)
(* SINGLE when the layout column is absent) is PAIRED, fastq_1 and fastq_2 *)
(* are '<run>_1.fastq.gz' and '<run>_2.fastq.gz'; otherwise fastq_1 is     *)
(* '<run>.fastq.gz' and fastq_2 is empty; the row's layout is the          *)
(* lowercased layout.                                                      *)
(***************************************************************************)
\* The layouts (uppercased) the metadata gives a samplesheet row
LayoutsOf(e) ==
    {IF has_layout THEN Upper(metadata_df[i].LibraryLayout) ELSE SINGLE :
        i \in {j \in DOMAIN metadata_df :
                  /\ metadata_df[j].index = e.experiment_accession
                  /\ e.run_accession \in Range(NonBlankRuns(metadata_df[j].Run))
                  /\ has_layout => metadata_df[j].LibraryLayout # NaN}}

PathsOk(e, lay, dir) ==
    /\ e.layout = Lower(lay)
    /\ IF lay = PAIRED
       THEN /\ e.fastq_1 = dir \o e.run_accession \o <<"_", "1">> \o FastqGz
            /\ e.fastq_2 = dir \o e.run_accession \o <<"_", "2">> \o FastqGz
            /\ e.fastq_1 # <<>> /\ e.fastq_2 # <<>>
       ELSE /\ e.fastq_1 = dir \o e.run_accession \o FastqGz
            /\ e.fastq_2 = <<>>

C4_PathsFromRun ==
    s_pc = "done" =>
        \A i \in DOMAIN output_file :
            \E lay \in LayoutsOf(output_file[i]) : PathsOk(output_file[i], lay, <<>>)

\* C4 as amended: the paths are those of the claim under the directory
\* 'seqFiles/': 'seqFiles/<run>_1.fastq.gz' and 'seqFiles/<run>_2.fastq.gz' for
\* PAIRED, else 'seqFiles/<run>.fastq.gz' and an empty fastq_2
C4_PathsUnderSeqFiles ==
    s_pc = "done" =>
        \A i \in DOMAIN output_file :
            \E lay \in LayoutsOf(output_file[i]) :
                PathsOk(output_file[i], lay, <<"s", "e", "q", "F", "i", "l", "e", "s", "/">>)

C4_Witness ==
    /\ s_pc = "done"
    /\ has_layout
    /\ Len(output_file) = 4
    /\ output_file[1].layout = Lower(PAIRED)
    /\ output_file[1].fastq_2 # <<>>
    /\ output_file[3].layout = Lower(SINGLE)
    /\ output_file[3].fastq_2 = <<>>
    /\ \E i \in DOMAIN metadata_df : metadata_df[i].LibraryLayout = Lower(PAIRED)

(***************************************************************************)
(* The specifications.  A program that is not the one run stays idle.      *)
(***************************************************************************)
MergeIdle ==
    /\ batch_dirs = <<>>
    /\ fs = [d \in Dirs |-> NoDir]
    /\ m_pc = "idle"
    /\ idx = 1
    /\ all_tpm = None
    /\ all_log_tpm = None
    /\ all_counts = None
    /\ out_files = [k \in Kinds |-> None]
    /\ summary = <<>>
    /\ warnings = <<>>

CleanIdle ==
    /\ infile = <<>>
    /\ columns = {}
    /\ layout = <<"b", "o", "t", "h">>
    /\ strain = NoStrain
    /\ c_pc = "idle"
    /\ DF_SRR = <<>>
    /\ DF_SRX = <<>>
    /\ outfile = <<>>
    /\ sample_id_csv = <<>>

SheetIdle ==
    /\ sample_ids_file = <<>>
    /\ metadata_df = <<>>
    /\ has_layout = FALSE
    /\ s_pc = "idle"
    /\ batch_sample_ids = {}
    /\ batch_metadata = <<>>
    /\ row_i = 1
    /\ samplesheet_data = <<>>
    /\ output_file = <<>>
    /\ warned = FALSE

MergeInit == MergeStart /\ CleanIdle /\ SheetIdle
CleanInit == CleanStart /\ MergeIdle /\ SheetIdle
SheetInit == SheetStart /\ MergeIdle /\ CleanIdle

Init == MergeInit \/ CleanInit \/ SheetInit

Next == MergeNext \/ CleanNext \/ SheetNext

\* Any one of the three programs, run once
Spec == Init /\ [][Next]_vars

\* One program each
SpecMerge == MergeInit /\ [][MergeNext]_vars

SpecClean == CleanInit /\ [][CleanNext]_vars

SpecSheet == SheetInit /\ [][SheetNext]_vars

====
